---- MODULE Spec2Model ----
(***************************************************************************)
(* Model of the Whisper JNI bridge (whisper-jni.cpp): the WAV reader       *)
(* read_wav_file and the four JNI entry points initContext, freeContext,   *)
(* transcribe and transcribeFromFloatArray, called from several JVM        *)
(* threads on a shared whisper engine.                                     *)
(*                                                                         *)
(* Bytes are integers 0..255, a file is a sequence of bytes, a float       *)
(* sample produced by pcm16[i] / 32768.0f is the exact rational            *)
(* num / den (the division of a 16-bit integer by 2^15 is exact in         *)
(* binary32), a C string is a sequence of one-character strings.           *)
(***************************************************************************)
EXTENDS Integers, Sequences, FiniteSets, TLC

VARIABLES
    th,        \* per JVM thread: position in the JNI function and its locals
    engine,    \* the whisper engine: per context address, liveness and segments
    crashed,   \* the process died (undefined behaviour took the fatal outcome)
    wavPc,     \* WAV reader harness: "off", "input" or "done"
    wavIn,     \* WAV reader harness: the file and the stale stack bytes
    wavOut     \* WAV reader harness: what read_wav_file produced

vars == <<th, engine, crashed, wavPc, wavIn, wavOut>>

----------------------------------------------------------------------------
(* Bounds of the model *)

\* longest data area (in bytes) of the generated WAV files
MaxDataLen == 4
\* largest low byte of the data-size field of the generated WAV files
MaxSizeLow == 5
\* largest number of segments one inference produces
MaxSegments == 2

----------------------------------------------------------------------------
(* read_wav_file *)

HeaderLen == 44
SizeOffset == 40
PcmScale == 32768

NoFile == <<-1>>

Min(a, b) == IF a < b THEN a ELSE b

\* the 44-byte header buffer after file.read(header, 44): the bytes the file
\* has, and for the rest what the uninitialized array held before
HeaderAfterRead(file, stack) ==
    [k \in 1..HeaderLen |-> IF k <= Len(file) THEN file[k] ELSE stack[k]]

\* header[0] != 'R' || header[1] != 'I' || header[2] != 'F' || header[3] != 'F'
MagicMismatch(header) ==
    header[1] # 82 \/ header[2] # 73 \/ header[3] # 70 \/ header[4] # 70

\* *(uint32_t*)(header + 40) on the little-endian targets of the build
DataSize(header) ==
    header[SizeOffset + 1] + 256 * header[SizeOffset + 2]
      + 65536 * header[SizeOffset + 3] + 16777216 * header[SizeOffset + 4]

\* number of bytes file.read((char*)pcm16.data(), data_size) stores: none when
\* the header read already hit the end of the file (failbit is set), else
\* what the file still has, up to data_size
BytesStored(file, dataSize) ==
    IF Len(file) < HeaderLen THEN 0 ELSE Min(dataSize, Len(file) - HeaderLen)

\* the byte buffer of std::vector<int16_t> pcm16(data_size / 2) after the read:
\* value-initialized to 0, then overwritten by the stored bytes
Pcm16Bytes(file, dataSize) ==
    [k \in 1..(2 * (dataSize \div 2)) |->
        IF k <= BytesStored(file, dataSize) THEN file[HeaderLen + k] ELSE 0]

\* the read stores more bytes than the vector owns (data_size odd and the
\* file has them all): a write past the end of the heap buffer
ReadOverflows(file, dataSize) ==
    BytesStored(file, dataSize) > 2 * (dataSize \div 2)

\* an int16_t read from two bytes of the buffer, low byte first
Int16Unsigned(lo, hi) == lo + 256 * hi

Int16(lo, hi) ==
    IF lo + 256 * hi >= 32768 THEN lo + 256 * hi - 65536 ELSE lo + 256 * hi

\* pcmf32[i] = pcm16[i] / 32768.0f
ToFloat(s) == [num |-> s, den |-> PcmScale]

Pcmf32(file, dataSize) ==
    LET buf == Pcm16Bytes(file, dataSize)
    IN  [k \in 1..(dataSize \div 2) |-> ToFloat(Int16(buf[2 * k - 1], buf[2 * k]))]

\* the outcomes of read_wav_file(filename, pcmf32) with pcmf32 empty on entry;
\* a read past the buffer is undefined: the call returns as if nothing
\* happened, or the process dies
ReadWavFile(file, stack) ==
    IF file = NoFile
    THEN {[outcome |-> "false", pcm |-> <<>>, header |-> stack]}
    ELSE LET header == HeaderAfterRead(file, stack)
             d == DataSize(header)
         IN  IF MagicMismatch(header)
             THEN {[outcome |-> "false", pcm |-> <<>>, header |-> header]}
             ELSE {[outcome |-> "true", pcm |-> Pcmf32(file, d), header |-> header]}
                  \cup (IF ReadOverflows(file, d)
                        THEN {[outcome |-> "crash", pcm |-> <<>>, header |-> header]}
                        ELSE {})

----------------------------------------------------------------------------
(* Inputs of the WAV reader harness *)

RECURSIVE SeqsUpTo(_, _)
SeqsUpTo(S, n) ==
    IF n = 0 THEN {<<>>}
    ELSE LET shorter == SeqsUpTo(S, n - 1)
         IN  shorter \cup {Append(s, x) : s \in {q \in shorter : Len(q) = n - 1}, x \in S}

Zeros(n) == [k \in 1..n |-> 0]

MkFile(magic, size, data) == magic \o Zeros(36) \o size \o data

Riff == <<82, 73, 70, 70>>
DataBytes == {0, 128, 255}

WavMagics == {Riff, <<82, 73, 70, 88>>}
WavSizes == {<<lo, hi, 0, 0>> : lo \in 0..MaxSizeLow, hi \in {0}} \cup {<<2, 1, 0, 0>>}
WavLens == {0, 3, 4, 42, 43} \cup {HeaderLen + n : n \in 0..MaxDataLen}

\* what the header array may hold before the read: zeros, or the header a
\* previous call left in the same stack slot
StackImages == {Zeros(HeaderLen), SubSeq(MkFile(Riff, <<4, 0, 0, 0>>, <<>>), 1, HeaderLen)}

WavFiles ==
    {NoFile} \cup
    {SubSeq(f, 1, Min(n, Len(f))) :
        f \in {MkFile(m, s, d) : m \in WavMagics, s \in WavSizes,
                                 d \in {q \in SeqsUpTo(DataBytes, MaxDataLen) : Len(q) = MaxDataLen}},
        n \in WavLens}

----------------------------------------------------------------------------
(* The JVM side: threads, arguments, files *)

Threads == {"t1", "t2"}

\* addresses whisper_init_from_file_with_params can return; NULL is 0
Handles == {4096}
Null == 0

\* jlong values a caller may pass as contextPtr
CtxArgs == {Null} \cup Handles

AudioPaths == {"missing.wav", "speech.wav"}

\* the files behind the paths: none, and a well-formed file of two samples
\* (malformed and truncated files are the subject of WavSpec)
FileAt(path) ==
    CASE path = "missing.wav" -> NoFile
      [] path = "notes.txt"   -> <<110, 111, 116, 101, 115>>
      [] path = "speech.wav"  -> MkFile(Riff, <<4, 0, 0, 0>>, <<0, 128, 255, 127>>)
      [] OTHER                -> NoFile

\* the samples of the Java array every call of transcribeFromFloatArray passes
JavaSamples == <<[num |-> 0, den |-> 1], [num |-> 1, den |-> 2]>>

\* the results of one inference: an utterance of 0..MaxSegments segments, each
\* segment text a space, the word heard in the samples and the segment's mark
Marks == <<"a", "b", "c", "d", "e", "f", "g", "h">>
SegmentOf(w, k) == <<" ", w, Marks[k]>>
Utterance(w, n) == [k \in 1..n |-> SegmentOf(w, k)]
HeardIn(samples) == IF samples = JavaSamples THEN "no" ELSE "yes"
SegLists(samples) == {Utterance(HeardIn(samples), n) : n \in 0..MaxSegments}
\* what a read of memory that holds no segment text yields
Garbage == <<"?">>

\* return codes of whisper_full: 0 is success
FullResults == {0, -2, -7}

\* the strings handed to NewStringUTF
ErrPrefix == <<"E", "r", "r", "o", "r", ":", " ">>

ErrInvalidContext ==
    ErrPrefix \o <<"I", "n", "v", "a", "l", "i", "d", " ", "c", "o", "n", "t", "e", "x", "t">>

ErrAudioPath ==
    ErrPrefix \o <<"F", "a", "i", "l", "e", "d", " ", "t", "o", " ", "g", "e", "t", " ",
                   "a", "u", "d", "i", "o", " ", "p", "a", "t", "h">>

ErrReadAudioBare ==
    <<"F", "a", "i", "l", "e", "d", " ", "t", "o", " ", "r", "e", "a", "d", " ",
      "a", "u", "d", "i", "o", " ", "f", "i", "l", "e">>

ErrReadAudio ==
    ErrPrefix \o <<"F", "a", "i", "l", "e", "d", " ", "t", "o", " ", "r", "e", "a", "d", " ",
                   "a", "u", "d", "i", "o", " ", "f", "i", "l", "e">>

ErrAudioData ==
    ErrPrefix \o <<"F", "a", "i", "l", "e", "d", " ", "t", "o", " ", "g", "e", "t", " ",
                   "a", "u", "d", "i", "o", " ", "d", "a", "t", "a">>

ErrTranscription ==
    ErrPrefix \o <<"T", "r", "a", "n", "s", "c", "r", "i", "p", "t", "i", "o", "n", " ",
                   "f", "a", "i", "l", "e", "d">>

\* what the two transcribe functions pass to NewStringUTF after a nonzero
\* whisper_full result
TranscriptionFailureWithCode(result) ==
    ErrTranscription \o <<" ">> \o (IF result = -2 THEN <<"-", "2">> ELSE <<"-", "7">>)

TranscriptionFailure(result) == ErrTranscription

JString(chars) == [kind |-> "jstring", chars |-> chars, value |-> 0]
JLong(v)       == [kind |-> "jlong", chars |-> <<>>, value |-> v]
JVoid          == [kind |-> "void", chars |-> <<>>, value |-> 0]
NoValue        == [kind |-> "none", chars |-> <<>>, value |-> 0]

\* the locals of one call, as they are on entry
Fresh(op, ctx, path, pc) ==
    [pc |-> pc, op |-> op, ctx |-> ctx, path |-> path,
     getOk |-> "unset",      \* GetStringUTFChars / GetFloatArrayElements: "ok" or "null"
     held |-> FALSE,         \* the characters or elements are pinned
     wavOk |-> "unset",      \* what read_wav_file returned
     pcm |-> <<>>,           \* the samples handed to whisper_full
     result |-> 0,           \* result of whisper_full
     ctxp |-> Null,          \* ctx of initContext
     n |-> 0, i |-> 0,       \* n_segments and the loop index
     text |-> <<>>,          \* transcription
     ret |-> NoValue,        \* the value returned to Java
     log |-> <<>>,           \* the last LOGE of the call
     \* bookkeeping about the call, read by the properties only
     got |-> <<>>,           \* the segment texts the engine handed to the call
     own |-> <<>>,           \* the segments the call's own inference produced
     acq |-> 0, rel |-> 0, relMode |-> "none",
     initCalls |-> 0, freeCalls |-> 0, fullCalls |-> 0, nsegCalls |-> 0, textCalls |-> 0,
     stale |-> "no",         \* the engine was called on a context that was not live
     disturbed |-> FALSE]    \* another engine call touched the context during the
                             \* call's inference or between it and the call's return

WavInit ==
    /\ th = [t \in Threads |-> Fresh("none", 0, "", "idle")]
    /\ engine = [h \in Handles |-> [status |-> "never", segs |-> <<>>]]
    /\ crashed = FALSE
    /\ wavPc = "input"
    /\ wavIn \in [file : WavFiles, stack : StackImages]
    /\ wavOut = [outcome |-> "none", pcm |-> <<>>, header |-> <<>>]

WavRead ==
    /\ wavPc = "input"
    /\ \E r \in ReadWavFile(wavIn.file, wavIn.stack) : wavOut' = r
    /\ wavPc' = "done"
    /\ UNCHANGED <<th, engine, crashed, wavIn>>

WavNext == WavRead

WavSpec == WavInit /\ [][WavNext]_vars

----------------------------------------------------------------------------
(* The engine behind the bridge (whisper.h), as the bridge's calls see it *)

Dangling(h) == engine[h].status # "live"

\* another thread is inside whisper_full on the context of t's call
Overlapped(t) ==
    \E u \in Threads \ {t} : th[u].pc = "in_full" /\ th[u].ctx = th[t].ctx

\* positions of a transcribe call from its own inference to its return
InOrAfterFull == {"in_full", "nseg", "loop"}

\* th with t's record replaced by rec, and every other call that is in or past
\* its own inference on context h marked as disturbed
Touch(t, rec, h) ==
    [u \in Threads |->
        IF u = t THEN rec
        ELSE IF th[u].ctx = h /\ th[u].pc \in InOrAfterFull
             THEN [th[u] EXCEPT !.disturbed = TRUE]
             ELSE th[u]]

\* the process dies, and every call and context with it
Crash ==
    /\ crashed' = TRUE
    /\ th' = [u \in Threads |-> Fresh("none", 0, "", "idle")]
    /\ engine' = [h \in Handles |-> [status |-> "never", segs |-> <<>>]]

Quiet == UNCHANGED <<wavPc, wavIn, wavOut>>

\* a Java thread can enter a native method when it is in none
AtRest(t) == th[t].pc \in {"idle", "returned"}

----------------------------------------------------------------------------
(* Java_com_sonu_WhisperService_initContext *)

\* (jlong)ctx
InitReturnFlag(ctxp) == IF ctxp = Null THEN 0 ELSE 1

InitReturn(ctxp) == ctxp

\* the function after GetStringUTFChars succeeded and the engine answered ctxp:
\* ReleaseStringUTFChars, the null check, the return
InitDone(ctxp) ==
    [Fresh("initContext", Null, "model.bin", "returned") EXCEPT
        !.getOk = "ok", !.acq = 1, !.initCalls = 1, !.ctxp = ctxp,
        !.held = FALSE, !.rel = 1, !.relMode = "string",
        !.log = IF ctxp = Null THEN <<"Failed to initialize whisper context">> ELSE <<>>,
        !.ret = IF ctxp = Null THEN JLong(0) ELSE JLong(InitReturn(ctxp))]

\* the whole call: GetStringUTFChars may give NULL; otherwise
\* whisper_init_from_file_with_params gives NULL or a new context at an
\* address that holds no live context
InitContext(t) ==
    /\ ~crashed
    /\ AtRest(t)
    /\ \/ /\ th' = [th EXCEPT ![t] =
                      [Fresh("initContext", Null, "model.bin", "returned") EXCEPT
                          !.getOk = "null",
                          !.log = <<"Failed to get model path string">>,
                          !.ret = JLong(0)]]
          /\ UNCHANGED engine
       \/ /\ th' = [th EXCEPT ![t] = InitDone(Null)]
          /\ UNCHANGED engine
       \/ \E h \in Handles :
            /\ Dangling(h)
            /\ engine' = [engine EXCEPT ![h] = [status |-> "live", segs |-> <<>>]]
            /\ th' = Touch(t, InitDone(h), h)
    /\ UNCHANGED crashed
    /\ Quiet

----------------------------------------------------------------------------
(* Java_com_sonu_WhisperService_freeContext *)

\* if (contextPtr == 0) return;
RejectsFreeUnlessLive(ctx) == ctx = 0 \/ Dangling(ctx)

RejectsFree(ctx) == ctx = 0

\* the whole call: whisper_free(ctx) on whatever a nonzero handle designates;
\* freeing a context that is not live is undefined, the process survives it
\* or dies
FreeContext(t) ==
    /\ ~crashed
    /\ AtRest(t)
    /\ \E c \in CtxArgs :
         IF RejectsFree(c)
         THEN /\ th' = [th EXCEPT ![t] =
                          [Fresh("freeContext", c, "", "returned") EXCEPT !.ret = JVoid]]
              /\ UNCHANGED <<engine, crashed>>
         ELSE \/ /\ th' = Touch(t, [Fresh("freeContext", c, "", "returned") EXCEPT
                                       !.freeCalls = 1,
                                       !.stale = IF Dangling(c) THEN engine[c].status
                                                 ELSE "no",
                                       !.ret = JVoid], c)
                 /\ engine' = [engine EXCEPT ![c] =
                                  [status |-> IF engine[c].status = "never" THEN "never"
                                              ELSE "freed",
                                   segs |-> <<>>]]
                 /\ UNCHANGED crashed
              \/ /\ Dangling(c)
                 /\ Crash
    /\ Quiet

----------------------------------------------------------------------------
(* Java_com_sonu_WhisperService_transcribe, up to the inference *)

\* the path where read_wav_file fails calls ReleaseStringUTFChars
ReleasedOnReadFailureForgotten == FALSE

ReleasedOnReadFailure == TRUE

\* the contextPtr == 0 check, GetStringUTFChars and its null check,
\* read_wav_file(audio_path_chars, pcmf32) and the branch on its result
TranscribeEnter(t) ==
    /\ ~crashed
    /\ AtRest(t)
    /\ \E c \in CtxArgs, p \in AudioPaths :
       LET call == Fresh("transcribe", c, p, "returned") IN
         IF c = 0
         THEN /\ th' = [th EXCEPT ![t] =
                          [call EXCEPT !.log = <<"Invalid context pointer">>,
                                       !.ret = JString(ErrInvalidContext)]]
              /\ UNCHANGED <<engine, crashed>>
         ELSE \/ /\ th' = [th EXCEPT ![t] =
                             [call EXCEPT !.getOk = "null",
                                          !.log = <<"Failed to get audio path string">>,
                                          !.ret = JString(ErrAudioPath)]]
                 /\ UNCHANGED <<engine, crashed>>
              \/ \E stack \in StackImages : \E r \in ReadWavFile(FileAt(p), stack) :
                   CASE r.outcome = "crash" -> Crash
                     [] r.outcome = "false" ->
                          /\ th' = [th EXCEPT ![t] =
                                      [call EXCEPT !.getOk = "ok", !.acq = 1,
                                                   !.wavOk = "false",
                                                   !.held = ~ReleasedOnReadFailure,
                                                   !.rel = IF ReleasedOnReadFailure
                                                           THEN 1 ELSE 0,
                                                   !.relMode = IF ReleasedOnReadFailure
                                                               THEN "string" ELSE "none",
                                                   !.ret = JString(ErrReadAudio)]]
                          /\ UNCHANGED <<engine, crashed>>
                     [] r.outcome = "true" ->
                          /\ th' = [th EXCEPT ![t] =
                                      [call EXCEPT !.getOk = "ok", !.acq = 1,
                                                   !.held = TRUE,
                                                   !.wavOk = "true", !.pcm = r.pcm,
                                                   !.pc = "full"]]
                          /\ UNCHANGED <<engine, crashed>>
    /\ Quiet

----------------------------------------------------------------------------
(* Java_com_sonu_WhisperService_transcribeFromFloatArray, up to the inference *)

\* the contextPtr == 0 check, GetArrayLength, GetFloatArrayElements and its
\* null check
ArrayEnter(t) ==
    /\ ~crashed
    /\ AtRest(t)
    /\ \E c \in CtxArgs :
       LET call == Fresh("transcribeFromFloatArray", c, "", "returned") IN
         IF c = 0
         THEN th' = [th EXCEPT ![t] =
                       [call EXCEPT !.log = <<"Invalid context pointer">>,
                                    !.ret = JString(ErrInvalidContext)]]
         ELSE \/ th' = [th EXCEPT ![t] =
                          [call EXCEPT !.getOk = "null",
                                       !.log = <<"Failed to get audio data array">>,
                                       !.ret = JString(ErrAudioData)]]
              \/ th' = [th EXCEPT ![t] =
                          [call EXCEPT !.getOk = "ok", !.acq = 1, !.held = TRUE,
                                       !.pcm = JavaSamples, !.pc = "full"]]
    /\ UNCHANGED <<engine, crashed>>
    /\ Quiet

----------------------------------------------------------------------------
(* The common tail of both transcribe functions *)

\* nothing in the bridge keeps a second whisper_full off a context in use
MayEnterFullLocked(t) ==
    /\ th[t].pc = "full"
    /\ \A u \in Threads \ {t} : ~(th[u].ctx = th[t].ctx /\ th[u].pc \in InOrAfterFull)

MayEnterFull(t) == th[t].pc = "full"

\* whisper_full(ctx, params, samples, n) is entered
FullBegin(t) ==
    /\ ~crashed
    /\ MayEnterFull(t)
    /\ th' = Touch(t, [th[t] EXCEPT !.fullCalls = @ + 1,
                                    !.stale = IF Dangling(th[t].ctx)
                                              THEN engine[th[t].ctx].status ELSE "no",
                                    !.disturbed = Overlapped(t),
                                    !.pc = "in_full"], th[t].ctx)
    /\ UNCHANGED <<engine, crashed>>
    /\ Quiet

\* where a call goes once whisper_full has returned and the characters or
\* elements are released
AfterFullRetrying(result) == IF result # 0 THEN "full" ELSE "nseg"

AfterFull(result) == IF result # 0 THEN "returned" ELSE "nseg"

\* the third argument of ReleaseFloatArrayElements
ReleaseMode == "JNI_ABORT"

\* the call after whisper_full returned code: ReleaseStringUTFChars or
\* ReleaseFloatArrayElements, then the branch on result
Released(rec, code, segs) ==
    [rec EXCEPT !.result = code, !.own = segs,
                !.held = FALSE, !.rel = @ + 1,
                !.relMode = IF rec.op = "transcribe" THEN "string" ELSE ReleaseMode,
                !.log = IF code # 0
                        THEN <<"Whisper transcription failed with code: %d", code>>
                        ELSE @,
                !.ret = IF code # 0 THEN JString(TranscriptionFailure(code)) ELSE @,
                !.pc = AfterFull(code)]

\* whisper_full returns. On a live context used by this call alone it fails
\* with a nonzero code or succeeds and leaves its segments in the context; on a
\* context that is not live, or one another thread used meanwhile, the
\* behaviour is undefined: any result, or the death of the process
FullEnd(t) ==
    /\ ~crashed
    /\ th[t].pc = "in_full"
    /\ LET c == th[t].ctx
           undefined == Dangling(c) \/ th[t].stale # "no" \/ th[t].disturbed
       IN  \/ /\ ~Dangling(c)
              /\ \E code \in FullResults :
                 \E segs \in (IF code = 0 \/ undefined THEN SegLists(th[t].pcm) ELSE {<<>>}) :
                    /\ engine' = [engine EXCEPT ![c].segs = segs]
                    /\ th' = Touch(t, Released(th[t], code, segs), c)
              /\ UNCHANGED crashed
           \/ /\ Dangling(c)
              /\ \E code \in FullResults :
                    th' = [th EXCEPT ![t] = Released(th[t], code, <<>>)]
              /\ UNCHANGED <<engine, crashed>>
           \/ /\ undefined
              /\ Crash
    /\ Quiet

\* an accessor of the context's result is undefined on a context that is not
\* live or that another thread is running whisper_full on
AccessUndefined(t) == Dangling(th[t].ctx) \/ Overlapped(t)

StaleNow(t) ==
    IF Dangling(th[t].ctx) /\ th[t].stale = "no"
    THEN engine[th[t].ctx].status ELSE th[t].stale

\* whisper_full_n_segments(ctx); with no segment the loop is skipped and the
\* empty transcription is returned
NSegments(t) ==
    /\ ~crashed
    /\ th[t].pc = "nseg"
    /\ \/ \E k \in (IF AccessUndefined(t) THEN 0..MaxSegments
                    ELSE {Len(engine[th[t].ctx].segs)}) :
            /\ th' = [th EXCEPT ![t].n = k, ![t].i = 0, ![t].text = <<>>,
                                ![t].nsegCalls = @ + 1,
                                ![t].stale = StaleNow(t),
                                ![t].ret = IF 0 < k THEN @ ELSE JString(<<>>),
                                ![t].pc = IF 0 < k THEN "loop" ELSE "returned"]
            /\ UNCHANGED <<engine, crashed>>
       \/ /\ AccessUndefined(t)
          /\ Crash
    /\ Quiet

\* if (i < n_segments - 1)
NeedsSeparatorAlways(i, n) == TRUE

NeedsSeparator(i, n) == i < n - 1

\* whisper_full_get_segment_text(ctx, i), with i counted from 0
SegmentText(segs, i) == segs[i + 1]

\* one round of the loop over the segments; after the last one,
\* NewStringUTF(transcription.c_str()) is returned
SegmentStep(t) ==
    /\ ~crashed
    /\ th[t].pc = "loop"
    /\ th[t].i < th[t].n
    /\ LET segs == engine[th[t].ctx].segs
           inRange == th[t].i < Len(segs)
           undefined == AccessUndefined(t) \/ ~inRange
       IN  \/ \E text \in (IF inRange THEN {SegmentText(segs, th[t].i)} ELSE {})
                           \cup (IF undefined THEN {Garbage} ELSE {}) :
                LET transcription ==
                        th[t].text \o text
                          \o (IF NeedsSeparator(th[t].i, th[t].n) THEN <<" ">> ELSE <<>>)
                    last == ~(th[t].i + 1 < th[t].n)
                IN  /\ th' = [th EXCEPT ![t].text = transcription,
                                        ![t].got = Append(@, text),
                                        ![t].i = @ + 1,
                                        ![t].textCalls = @ + 1,
                                        ![t].stale = StaleNow(t),
                                        ![t].ret = IF last THEN JString(transcription) ELSE @,
                                        ![t].pc = IF last THEN "returned" ELSE "loop"]
                    /\ UNCHANGED <<engine, crashed>>
           \/ /\ undefined
              /\ Crash
    /\ Quiet

----------------------------------------------------------------------------
(* The bridge under concurrent callers *)

Init ==
    /\ th = [t \in Threads |-> Fresh("none", 0, "", "idle")]
    /\ engine = [h \in Handles |-> [status |-> "never", segs |-> <<>>]]
    /\ crashed = FALSE
    /\ wavPc = "off"
    /\ wavIn = [file |-> NoFile, stack |-> Zeros(HeaderLen)]
    /\ wavOut = [outcome |-> "none", pcm |-> <<>>, header |-> <<>>]

Next ==
    \E t \in Threads :
        \/ InitContext(t)
        \/ FreeContext(t)
        \/ TranscribeEnter(t)
        \/ ArrayEnter(t)
        \/ FullBegin(t)
        \/ FullEnd(t)
        \/ NSegments(t)
        \/ SegmentStep(t)

Spec == Init /\ [][Next]_vars

----------------------------------------------------------------------------
(* Properties *)

TrOps == {"transcribe", "transcribeFromFloatArray"}

Returned(t) == th[t].pc = "returned"

HasPrefix(s, p) == Len(s) >= Len(p) /\ SubSeq(s, 1, Len(p)) = p

\* the call ran whisper_full and it answered a nonzero code
FullFailed(t) == th[t].fullCalls > 0 /\ th[t].pc # "in_full" /\ th[t].result # 0

\* the call ran whisper_full and it answered 0
FullSucceeded(t) == th[t].fullCalls > 0 /\ th[t].pc # "in_full" /\ th[t].result = 0

\* one of the failure causes of a transcribe call happened
Failed(t) ==
    \/ th[t].ctx = 0
    \/ th[t].getOk = "null"
    \/ th[t].wavOk = "false"
    \/ FullFailed(t)

\* C1: a transcribe or transcribeFromFloatArray call that returns after any of
\* its failure causes (contextPtr == 0, string or array not obtained,
\* read_wav_file false, whisper_full nonzero) returns a string that begins
\* with "Error: ", and every value such a call returns is a string
C1_FailuresAreErrorStrings ==
    \A t \in Threads :
        (Returned(t) /\ th[t].op \in TrOps) =>
            /\ th[t].ret.kind = "jstring"
            /\ Failed(t) => HasPrefix(th[t].ret.chars, ErrPrefix)

C1_Witness ==
    \E t, u \in Threads :
        /\ Returned(t) /\ th[t].op = "transcribe" /\ th[t].wavOk = "false"
        /\ Returned(u) /\ th[u].op = "transcribeFromFloatArray" /\ FullFailed(u)

\* C2 as stated: two calls whose whisper_full failed with different codes
\* return different strings
C2_CodeCarriedInString ==
    \A t, u \in Threads :
        (/\ Returned(t) /\ th[t].op \in TrOps /\ FullFailed(t)
         /\ Returned(u) /\ th[u].op \in TrOps /\ FullFailed(u)
         /\ th[t].result # th[u].result)
        => th[t].ret # th[u].ret

\* C2 amended: a call whose whisper_full failed returns the one string
\* "Error: Transcription failed" whatever the code; the code goes to the
\* error log only
C2_FixedFailureString ==
    \A t \in Threads :
        (Returned(t) /\ th[t].op \in TrOps /\ FullFailed(t)) =>
            /\ th[t].ret = JString(ErrTranscription)
            /\ th[t].log = <<"Whisper transcription failed with code: %d", th[t].result>>

C2_Witness ==
    \E t, u \in Threads :
        /\ Returned(t) /\ FullFailed(t) /\ Returned(u) /\ FullFailed(u)
        /\ th[t].result # th[u].result
        /\ th[t].ret = th[u].ret

\* C3: the only handle the bridge rejects is 0: freeContext calls whisper_free
\* exactly once for every nonzero handle and not at all for 0, and a transcribe
\* call is refused as "Invalid context" exactly for handle 0 and otherwise
\* reaches whisper_full once its other checks pass, whether or not the handle
\* designates a live context
C3_OnlyZeroRejected ==
    \A t \in Threads :
        /\ (Returned(t) /\ th[t].op = "freeContext") =>
               th[t].freeCalls = (IF th[t].ctx = 0 THEN 0 ELSE 1)
        /\ (Returned(t) /\ th[t].op \in TrOps) =>
               /\ (th[t].ret = JString(ErrInvalidContext)) <=> (th[t].ctx = 0)
               /\ (th[t].ctx # 0 /\ th[t].getOk = "ok" /\ th[t].wavOk # "false")
                      => th[t].fullCalls = 1

\* a double free and an inference on a freed context
C3_Witness ==
    \E t, u \in Threads :
        /\ Returned(t) /\ th[t].op = "freeContext"
        /\ th[t].stale = "freed" /\ th[t].freeCalls = 1
        /\ Returned(u) /\ th[u].op = "transcribe"
        /\ th[u].stale = "freed" /\ th[u].fullCalls = 1

FileByte(k) == IF k < Len(wavIn.file) THEN wavIn.file[k + 1] ELSE 0

\* byte k (from 0) of the header as the reader saw it
SeenHeaderByte(k) ==
    IF k < Len(wavIn.file) THEN wavIn.file[k + 1] ELSE wavIn.stack[k + 1]

\* the data size D: bytes 40-43, least significant first
SeenDataSize ==
    SeenHeaderByte(40) + 256 * SeenHeaderByte(41) + 65536 * SeenHeaderByte(42)
      + 16777216 * SeenHeaderByte(43)

\* the signed 16-bit value of the two bytes at offset k of the file
SignedAt(k) ==
    LET u == FileByte(k) + 256 * FileByte(k + 1)
    IN  IF FileByte(k + 1) >= 128 THEN u - 65536 ELSE u

\* C5: for an accepted file the output has floor(D/2) samples, D being the
\* little-endian value of header bytes 40-43; sample i is the signed 16-bit
\* value at byte offset 44+2i (bytes the file does not have counting as 0)
\* over 32768, so every sample lies in [-1, 1)
C5_FixedOffsetDecode ==
    (wavPc = "done" /\ wavOut.outcome = "true") =>
        /\ Len(wavOut.pcm) = SeenDataSize \div 2
        /\ \A i \in 0..(Len(wavOut.pcm) - 1) :
              /\ wavOut.pcm[i + 1].den = 32768
              /\ wavOut.pcm[i + 1].num = SignedAt(44 + 2 * i)
              /\ -wavOut.pcm[i + 1].den <= wavOut.pcm[i + 1].num
              /\ wavOut.pcm[i + 1].num < wavOut.pcm[i + 1].den

C5_Witness ==
    /\ wavPc = "done" /\ wavOut.outcome = "true"
    /\ Len(wavIn.file) >= 48
    /\ Len(wavOut.pcm) = 2
    /\ wavOut.pcm[1].num < 0
    /\ wavOut.pcm[2].num > 0

\* C6 as stated: read_wav_file returns false exactly when the file cannot be
\* opened or the header's first four bytes are not "RIFF", and returns true in
\* every other case, with floor(D/2) samples of which those the file does not
\* reach are 0
C6_TrueUnlessMagicFails ==
    wavPc = "done" =>
        LET rejected == wavIn.file = NoFile
                          \/ <<SeenHeaderByte(0), SeenHeaderByte(1),
                               SeenHeaderByte(2), SeenHeaderByte(3)>> # <<82, 73, 70, 70>>
        IN  /\ rejected => wavOut.outcome = "false"
            /\ ~rejected =>
                 /\ wavOut.outcome = "true"
                 /\ Len(wavOut.pcm) = SeenDataSize \div 2
                 /\ \A i \in 0..(Len(wavOut.pcm) - 1) :
                        44 + 2 * i >= Len(wavIn.file) => wavOut.pcm[i + 1].num = 0

RECURSIVE JoinWithSpaces(_)
JoinWithSpaces(texts) ==
    IF texts = <<>> THEN <<>>
    ELSE IF Len(texts) = 1 THEN texts[1]
    ELSE texts[1] \o <<" ">> \o JoinWithSpaces(Tail(texts))

\* C7: a call whose whisper_full answered 0 returns the texts the engine gave
\* for segments 0..n-1, in that order, with one space between consecutive
\* texts and nothing before or after; they are the segments of the call's own
\* inference when the context was live and no other call used it meanwhile
C7_SegmentsJoinedBySpaces ==
    \A t \in Threads :
        (Returned(t) /\ th[t].op \in TrOps /\ FullSucceeded(t)) =>
            /\ Len(th[t].got) = th[t].n
            /\ th[t].ret = JString(JoinWithSpaces(th[t].got))
            /\ (th[t].stale = "no" /\ ~th[t].disturbed) => th[t].got = th[t].own

C7_Witness ==
    \E t, u \in Threads :
        /\ Returned(t) /\ FullSucceeded(t) /\ th[t].stale = "no" /\ ~th[t].disturbed
        /\ th[t].n = 2
        /\ Returned(u) /\ FullSucceeded(u) /\ th[u].stale = "no" /\ ~th[u].disturbed
        /\ th[u].n = 0 /\ th[u].ret = JString(<<>>)

\* the checks a transcribe call makes before the inference all passed
PreChecksPassed(t) ==
    th[t].ctx # 0 /\ th[t].getOk = "ok" /\ th[t].wavOk # "false"

\* C8: a transcribe call runs whisper_full at most once: once when its
\* pre-checks passed, never when one of them failed; after a nonzero result it
\* returns without another engine call and without reading a segment
C8_OneInferencePerCall ==
    \A t \in Threads :
        /\ th[t].fullCalls <= 1
        /\ (Returned(t) /\ th[t].op \in TrOps) =>
              /\ th[t].fullCalls = (IF PreChecksPassed(t) THEN 1 ELSE 0)
              /\ FullFailed(t) => (th[t].nsegCalls = 0 /\ th[t].textCalls = 0)
              /\ FullSucceeded(t) => (th[t].nsegCalls = 1 /\ th[t].textCalls = th[t].n)

C8_Witness ==
    \E t, u \in Threads :
        /\ Returned(t) /\ th[t].op \in TrOps /\ FullFailed(t) /\ th[t].fullCalls = 1
        /\ Returned(u) /\ th[u].op = "transcribe" /\ th[u].wavOk = "false"
        /\ th[u].fullCalls = 0

\* C9: nothing keeps two calls on the same handle apart: a call that has
\* reached its whisper_full can enter it in every state, also while another
\* call on the same context is inside whisper_full or between its whisper_full
\* and its segment reads
C9_NoMutualExclusion ==
    \A t \in Threads :
        (~crashed /\ th[t].pc = "full") => ENABLED FullBegin(t)

\* a call on the file returned, from a live context, the text of the segments
\* the other call's inference on the array left in it
C9_Witness ==
    \E t, u \in Threads :
        /\ t # u /\ th[t].ctx = th[u].ctx
        /\ Returned(t) /\ th[t].op = "transcribe" /\ FullSucceeded(t)
        /\ th[t].stale = "no"
        /\ th[u].op = "transcribeFromFloatArray" /\ FullSucceeded(u)
        /\ th[u].own # <<>>
        /\ th[t].got = th[u].own
        /\ th[t].got # th[t].own
        /\ th[t].ret = JString(JoinWithSpaces(th[u].own))

\* C10: a call that obtained the characters or elements releases them exactly
\* once before it returns, on every path, and keeps them while the engine
\* reads them; the float elements are released with JNI_ABORT; a call that did
\* not obtain them releases nothing
C10_ReleasedExactlyOnce ==
    \A t \in Threads :
        /\ th[t].rel <= th[t].acq
        /\ th[t].held <=> (th[t].acq = 1 /\ th[t].rel = 0)
        /\ th[t].pc \in {"full", "in_full"} => th[t].held
        /\ Returned(t) =>
              /\ th[t].acq = (IF th[t].getOk = "ok" THEN 1 ELSE 0)
              /\ th[t].rel = th[t].acq
              /\ th[t].relMode =
                    (IF th[t].getOk # "ok" THEN "none"
                     ELSE IF th[t].op = "transcribeFromFloatArray" THEN "JNI_ABORT"
                     ELSE "string")

C10_Witness ==
    \E t, u \in Threads :
        /\ Returned(t) /\ th[t].op = "transcribe" /\ th[t].wavOk = "false" /\ th[t].rel = 1
        /\ Returned(u) /\ th[u].op = "transcribeFromFloatArray" /\ th[u].rel = 1
        /\ th[u].relMode = "JNI_ABORT"

====
